---------------------------- MODULE Spec2Model ----------------------------
(***************************************************************************)
(* Vehicle-detection service: the Flask HTTP API (src/app.py) and the      *)
(* Streamlit form (src/app_streamlit.py).                                  *)
(*                                                                         *)
(* Spec     : one process of the HTTP API started with `python app.py`     *)
(*            (the __main__ block), serving concurrent requests.           *)
(* SpecForm : one process of the Streamlit form serving concurrent         *)
(*            browser sessions, each re-running the script per interaction.*)
(*                                                                         *)
(* Confidences and thresholds are percentages (0.5 is 50).  The weights    *)
(* file best.pt is absent, valid, or present but unloadable ("corrupt")    *)
(* for the whole life of the process.                                      *)
(*                                                                         *)
(* load_model of app.py is called by the __main__ block and is also        *)
(* registered with @app.before_first_request: Flask runs a registered      *)
(* function once, under a lock, inside the handling of the first request   *)
(* and before its view function (test of the flag, lock, second test, the  *)
(* functions, then the flag is set).  The server of app.run handles each   *)
(* request in a thread of its own.  Streamlit runs the script of each      *)
(* browser session in a thread of its own, in one process and one working  *)
(* directory; a run is modelled as running to its end before the session's *)
(* next interaction.                                                       *)
(***************************************************************************)
EXTENDS Naturals, Sequences, FiniteSets

VARIABLES
    weights,          \* state of the file MODEL_PATH / model_path on disk
    \* ---- HTTP API (src/app.py)
    proc,             \* "starting" | "serving" | "crashed"
    model,            \* the module global `model`
    loadCount,        \* number of executions of load_model so far
    gotFirstRequest,  \* Flask's flag guarding the before_first_request hooks
    hookLock,         \* holder of the lock around the hooks (0: free)
    pc,               \* per request thread: where the request is
    thr,              \* per request thread: inputs kept between the two halves of predict
    sent,             \* per request thread: responses sent for the current request
    lastResp,         \* the response sent last, with the inputs it answers
    \* ---- Streamlit form (src/app_streamlit.py)
    cache,            \* st.cache_resource entry of load_model
    sess,             \* per browser session: widget state and script position
    tempFile          \* content of temp_result.jpg

httpVars == <<proc, model, loadCount, gotFirstRequest, hookLock, pc, thr, sent, lastResp>>
formVars == <<cache, sess, tempFile>>
vars == <<weights, httpVars, formVars>>

\* ------------------------------------------------------------------ bounds
MaxReq == 2        \* concurrent request threads of the HTTP API
MaxResults == 1    \* Results objects the detector returns for one call
MaxBoxes == 1      \* boxes in one Results object
MaxSessions == 2   \* concurrent browser sessions of the form

Threads == 1..MaxReq
WeightStates == {"absent", "valid", "corrupt"}

\* ------------------------------------------------------------ model handle
Unbound == [tag |-> "unbound", id |-> 0]    \* the global was never assigned
NoneVal == [tag |-> "None", id |-> 0]
Handle(n) == [tag |-> "YOLO", id |-> n]     \* the n-th detector object built

\* os.path.exists(MODEL_PATH)
PathExists(w) == w # "absent"

\* YOLO(MODEL_PATH): raises when the file cannot be loaded
YoloRaises(w) == w = "corrupt"

\* load_model of app.py, executed as the n-th load with `model` = old:
\* the value left in `model` and whether the call raised.
LoadModelElseUnassigned(w, n, old) ==
    IF PathExists(w)
    THEN IF YoloRaises(w)
         THEN [raised |-> TRUE, model |-> old]
         ELSE [raised |-> FALSE, model |-> Handle(n)]
    ELSE [raised |-> FALSE, model |-> old]

load_model(w, n, old) ==
    IF PathExists(w)
    THEN IF YoloRaises(w)
         THEN [raised |-> TRUE, model |-> old]
         ELSE [raised |-> FALSE, model |-> Handle(n)]
    ELSE [raised |-> FALSE, model |-> NoneVal]

\* ------------------------------------------------------------- the detector
\* Candidate boxes of an image: (box.cls, box.conf in percent)
Boxes == { [cls |-> 1, conf |-> 60], [cls |-> 9, conf |-> 30] }

SeqsUpTo(S, n) == UNION { [1..k -> S] : k \in 0..n }

\* the boxes of one Results object: the detector keeps the candidates whose
\* score reaches the threshold it is given
BoxLists(c) == SeqsUpTo({ b \in Boxes : b.conf >= c }, MaxBoxes)

\* model.predict(image, conf=c): the lists of Results the detector may
\* return, one Results object per image at least
DetectorOutputs(c) == SeqsUpTo(BoxLists(c), MaxResults) \ {<<>>}

\* the detector rejects a threshold outside [0, 1]
DetectorRejects(c) == c > 100

\* result.names.get(cls, f"Class {cls}")
Names == [c \in {0, 1, 2, 3, 4, 5} |->
            CASE c = 0 -> "Bus" [] c = 1 -> "Car" [] c = 2 -> "Motorcycle"
              [] c = 3 -> "Pickup-truck" [] c = 4 -> "Semi-trailer" [] c = 5 -> "Van"]

ClassName(c) == IF c \in DOMAIN Names THEN Names[c] ELSE "Class ?"


\* ------------------------------------------------- POST /predict, the pieces
ConfFields == {"<missing>", "0", "0.9", "1.5", "abc"}
ImageStates == {"valid", "invalid"}

\* float(text): the strings Python parses, as percentages
FloatTable == [s \in {"0", "0.9", "1.5"} |->
                 CASE s = "0" -> 0 [] s = "0.9" -> 90 [] s = "1.5" -> 150]

FloatRaises(s) == s \notin DOMAIN FloatTable

DefaultConf == 50

\* float(request.form.get('conf', 0.5))
ConfIgnoresField(field) == DefaultConf

ConfOf(field) == IF field = "<missing>" THEN DefaultConf ELSE FloatTable[field]

ConfRaises(field) == field # "<missing>" /\ FloatRaises(field)

\* one detection record of the response (bbox left out: no claim reads it)
Record(box) ==
    [class_id |-> box.cls, class_name |-> ClassName(box.cls), confidence |-> box.conf]

RECURSIVE OfBoxes(_)
OfBoxes(boxes) ==
    IF boxes = <<>> THEN <<>>
    ELSE <<Record(Head(boxes))>> \o OfBoxes(Tail(boxes))

\* the two nested loops over results and result.boxes
RECURSIVE Detections(_)
Detections(results) ==
    IF results = <<>> THEN <<>>
    ELSE OfBoxes(Head(results)) \o Detections(Tail(results))

\* 'count' of the response
CountOfResults(results) == Len(results)

CountOf(results) == Len(Detections(results))

NoIn == [modelTag |-> "-", hasFile |-> FALSE, conf |-> "-", img |-> "-", infer |-> "-"]

NoResp ==
    [route |-> "-", status |-> 0, kind |-> "-", error |-> "", model_loaded |-> FALSE,
     detections |-> <<>>, count |-> 0, called |-> FALSE, in |-> NoIn]

ErrorResp(status, msg, called, in) ==
    [route |-> "predict", status |-> status, kind |-> "json_error", error |-> msg,
     model_loaded |-> FALSE, detections |-> <<>>, count |-> 0, called |-> called, in |-> in]

OkResp(results, in) ==
    [route |-> "predict", status |-> 200, kind |-> "json_ok", error |-> "",
     model_loaded |-> FALSE, detections |-> Detections(results),
     count |-> CountOf(results), called |-> TRUE, in |-> in]

\* an exception that leaves the view function or the hook: Flask's own 500 page
FaultResp(route, in) ==
    [route |-> route, status |-> 500, kind |-> "fault", error |-> "",
     model_loaded |-> FALSE, detections |-> <<>>, count |-> 0, called |-> FALSE, in |-> in]

\* predict up to the decoded image: the response it returns, or "go on".
\* m is the value of the global `model`.
FirstHalfFileFirst(m, in) ==
    IF ~in.hasFile THEN ErrorResp(400, "No file provided", FALSE, in)
    ELSE IF m.tag = "unbound" THEN ErrorResp(500, "NameError", FALSE, in)
    ELSE IF m = NoneVal THEN ErrorResp(500, "Model not loaded", FALSE, in)
    ELSE IF ConfRaises(in.conf) THEN ErrorResp(500, "ValueError", FALSE, in)
    ELSE IF in.img # "valid" THEN ErrorResp(500, "UnidentifiedImageError", FALSE, in)
    ELSE NoResp

FirstHalf(m, in) ==
    IF m.tag = "unbound" THEN ErrorResp(500, "NameError", FALSE, in)
    ELSE IF m = NoneVal THEN ErrorResp(500, "Model not loaded", FALSE, in)
    ELSE IF ~in.hasFile THEN ErrorResp(400, "No file provided", FALSE, in)
    ELSE IF ConfRaises(in.conf) THEN ErrorResp(500, "ValueError", FALSE, in)
    ELSE IF in.img # "valid" THEN ErrorResp(500, "UnidentifiedImageError", FALSE, in)
    ELSE NoResp

\* the threshold handed to model.predict
PassedConf(field) == ConfOf(field)

\* the outcomes of model.predict: it raises, or it returns a batch
Raised == [raised |-> TRUE, results |-> <<>>]

InferOutcomes(m, c) ==
    IF m.tag # "YOLO" \/ DetectorRejects(c) THEN {Raised}
    ELSE {Raised} \cup { [raised |-> FALSE, results |-> rs] : rs \in DetectorOutputs(c) }

\* predict from model.predict to the return
SecondHalfSwallows(outcome, in) ==
    IF outcome.raised
    THEN OkResp(<<>>, [in EXCEPT !.infer = "raises"])
    ELSE OkResp(outcome.results, [in EXCEPT !.infer = "ok"])

SecondHalf(outcome, in) ==
    IF outcome.raised
    THEN ErrorResp(500, "InferenceError", TRUE, [in EXCEPT !.infer = "raises"])
    ELSE OkResp(outcome.results, [in EXCEPT !.infer = "ok"])

\* ---------------------------------------------------------------- HTTP API
HttpInit ==
    /\ proc = "starting"
    /\ model = Unbound
    /\ loadCount = 0
    /\ gotFirstRequest = FALSE
    /\ hookLock = 0
    /\ pc = [r \in Threads |-> "idle"]
    /\ thr = [r \in Threads |-> NoIn]
    /\ sent = [r \in Threads |-> 0]
    /\ lastResp = NoResp

Sessions == 1..MaxSessions

NoOut == [img |-> 0, n |-> 0, warning |-> FALSE, rows |-> 0, stats |-> FALSE, divisor |-> 0]

FreshSession ==
    [uploaded |-> "none", slider |-> DefaultConf, pc |-> "idle", clicked |-> FALSE,
     button |-> FALSE, left |-> 0, calls |-> 0, out |-> NoOut]

FormIdle ==
    /\ cache = Unbound
    /\ sess = [s \in Sessions |-> FreshSession]
    /\ tempFile = 0

Init ==
    /\ weights \in WeightStates
    /\ HttpInit
    /\ FormIdle

Respond(r, resp) ==
    /\ lastResp' = resp
    /\ sent' = [sent EXCEPT ![r] = @ + 1]
    /\ pc' = [pc EXCEPT ![r] = "done"]

\* the __main__ block: load_model() and then app.run(...)
Main ==
    /\ proc = "starting"
    /\ LET out == load_model(weights, loadCount + 1, model) IN
         /\ model' = out.model
         /\ proc' = IF out.raised THEN "crashed" ELSE "serving"
    /\ loadCount' = loadCount + 1
    /\ UNCHANGED <<weights, gotFirstRequest, hookLock, pc, thr, sent, lastResp, formVars>>

\* a request reaches a free thread of the server
Arrive(r) ==
    /\ proc = "serving"
    /\ pc[r] \in {"idle", "done"}
    /\ pc' = [pc EXCEPT ![r] = "hook"]
    /\ sent' = [sent EXCEPT ![r] = 0]
    /\ UNCHANGED <<weights, proc, model, loadCount, gotFirstRequest, hookLock, thr,
                   lastResp, formVars>>

\* before_first_request: the unlocked test of the first-request flag
HookFastCheck(r) ==
    /\ pc[r] = "hook"
    /\ pc' = [pc EXCEPT ![r] = IF gotFirstRequest THEN "dispatch" ELSE "wantlock"]
    /\ UNCHANGED <<weights, proc, model, loadCount, gotFirstRequest, hookLock, thr,
                   sent, lastResp, formVars>>

\* before_first_request: take the lock and test the flag again
HookLocked(r) ==
    /\ pc[r] = "wantlock"
    /\ hookLock = 0
    /\ IF gotFirstRequest
       THEN /\ pc' = [pc EXCEPT ![r] = "dispatch"]
            /\ UNCHANGED hookLock
       ELSE /\ pc' = [pc EXCEPT ![r] = "inhook"]
            /\ hookLock' = r
    /\ UNCHANGED <<weights, proc, model, loadCount, gotFirstRequest, thr, sent,
                   lastResp, formVars>>

\* before_first_request: run load_model under the lock, then set the flag
HookRun(r) ==
    /\ pc[r] = "inhook"
    /\ hookLock = r
    /\ LET out == load_model(weights, loadCount + 1, model) IN
         /\ model' = out.model
         /\ IF out.raised
            THEN /\ Respond(r, FaultResp("-", NoIn))
                 /\ UNCHANGED gotFirstRequest
            ELSE /\ gotFirstRequest' = TRUE
                 /\ pc' = [pc EXCEPT ![r] = "dispatch"]
                 /\ UNCHANGED <<sent, lastResp>>
    /\ loadCount' = loadCount + 1
    /\ hookLock' = 0
    /\ UNCHANGED <<weights, proc, thr, formVars>>

\* GET /health
HealthResp(m) ==
    IF m.tag = "unbound" THEN FaultResp("health", [NoIn EXCEPT !.modelTag = m.tag])
    ELSE [NoResp EXCEPT !.route = "health", !.status = 200, !.kind = "json_ok",
                        !.model_loaded = (m # NoneVal),
                        !.in = [NoIn EXCEPT !.modelTag = m.tag]]

health(r) ==
    /\ pc[r] = "dispatch"
    /\ Respond(r, HealthResp(model))
    /\ UNCHANGED <<weights, proc, model, loadCount, gotFirstRequest, hookLock, thr, formVars>>

\* GET /
home(r) ==
    /\ pc[r] = "dispatch"
    /\ Respond(r, [NoResp EXCEPT !.route = "home", !.status = 200, !.kind = "html"])
    /\ UNCHANGED <<weights, proc, model, loadCount, gotFirstRequest, hookLock, thr, formVars>>

\* POST /predict, lines 57-73: the checks, the threshold, the decoding
predictCheck(r) ==
    /\ pc[r] = "dispatch"
    /\ \E hasFile \in BOOLEAN, field \in ConfFields, img \in ImageStates :
         LET in == [modelTag |-> model.tag, hasFile |-> hasFile, conf |-> field,
                    img |-> IF hasFile THEN img ELSE "-", infer |-> "-"]
             resp == FirstHalf(model, in)
         IN  /\ hasFile \/ img = "valid"
             /\ IF resp # NoResp
                THEN /\ Respond(r, resp)
                     /\ UNCHANGED thr
                ELSE /\ pc' = [pc EXCEPT ![r] = "infer"]
                     /\ thr' = [thr EXCEPT ![r] = in]
                     /\ UNCHANGED <<sent, lastResp>>
    /\ UNCHANGED <<weights, proc, model, loadCount, gotFirstRequest, hookLock, formVars>>

\* POST /predict, lines 76-104: inference and the response
predictInfer(r) ==
    /\ pc[r] = "infer"
    /\ \E outcome \in InferOutcomes(model, PassedConf(thr[r].conf)) :
         Respond(r, SecondHalf(outcome, thr[r]))
    /\ thr' = [thr EXCEPT ![r] = NoIn]
    /\ UNCHANGED <<weights, proc, model, loadCount, gotFirstRequest, hookLock, formVars>>

Next ==
    \/ Main
    \/ \E r \in Threads :
         \/ Arrive(r)
         \/ HookFastCheck(r)
         \/ HookLocked(r)
         \/ HookRun(r)
         \/ health(r)
         \/ home(r)
         \/ predictCheck(r)
         \/ predictInfer(r)

Spec == Init /\ [][Next]_vars

\* the steps the thread of an arrived request takes
Step(r) ==
    \/ HookFastCheck(r) \/ HookLocked(r) \/ HookRun(r)
    \/ health(r) \/ home(r) \/ predictCheck(r) \/ predictInfer(r)


\* ----------------------------------------------------------- Streamlit form
\* load_model of app_streamlit.py: what st.cache_resource stores
form_load_model(w) ==
    IF ~PathExists(w) THEN NoneVal
    ELSE IF YoloRaises(w) THEN NoneVal
    ELSE Handle(1)

UploadStates == {"none", "valid", "invalid"}
SliderValues == {DefaultConf, 90}

\* `if uploaded_file is not None and model is not None:` then `if st.button(...)`
ShowsButtonWithoutModel(uploaded, m) == uploaded # "none"

ShowsButton(uploaded, m) == uploaded # "none" /\ m # NoneVal

\* one pass of the loop body after the image: the table and the statistics
RenderResult(img, boxes) ==
    IF Len(boxes) > 0
    THEN [img |-> img, n |-> Len(boxes), warning |-> FALSE, rows |-> Len(OfBoxes(boxes)),
          stats |-> TRUE, divisor |-> Len(OfBoxes(boxes))]
    ELSE [img |-> img, n |-> 0, warning |-> TRUE, rows |-> 0, stats |-> FALSE,
          divisor |-> 0]

FormInit ==
    /\ weights \in WeightStates
    /\ HttpInit
    /\ FormIdle

\* a widget interaction other than the button (page load, upload, removal,
\* slider): the script is re-run with the button reading False
Rerun(s) ==
    /\ sess[s].pc = "idle"
    /\ \E u \in UploadStates, c \in SliderValues :
         sess' = [sess EXCEPT ![s] = [FreshSession EXCEPT !.uploaded = u, !.slider = c,
                                                           !.pc = "run"]]
    /\ UNCHANGED <<weights, httpVars, cache, tempFile>>

\* a click on the button the last run displayed: the script is re-run with
\* the button reading True
Click(s) ==
    /\ sess[s].pc = "idle"
    /\ sess[s].button
    /\ sess' = [sess EXCEPT ![s] = [FreshSession EXCEPT !.uploaded = sess[s].uploaded,
                                                         !.slider = sess[s].slider,
                                                         !.pc = "run", !.clicked = TRUE]]
    /\ UNCHANGED <<weights, httpVars, cache, tempFile>>

\* the script from its top to model.predict (lines 14-129)
ScriptTop(s) ==
    /\ sess[s].pc = "run"
    /\ LET m == IF cache = Unbound THEN form_load_model(weights) ELSE cache
           u == sess[s].uploaded
           stop == [sess[s] EXCEPT !.pc = "idle"]
       IN  /\ cache' = m
           /\ IF u = "invalid"
              THEN sess' = [sess EXCEPT ![s] = stop]         \* Image.open raises
              ELSE IF ~ShowsButton(u, m)
              THEN sess' = [sess EXCEPT ![s] = stop]         \* st.info / st.error
              ELSE IF ~sess[s].clicked
              THEN sess' = [sess EXCEPT ![s] = [stop EXCEPT !.button = TRUE]]
              ELSE \E o \in { [raised |-> x.raised, n |-> Len(x.results)] :
                                x \in InferOutcomes(m, sess[s].slider) } :
                     sess' = [sess EXCEPT ![s] =
                                [sess[s] EXCEPT !.button = TRUE, !.calls = @ + 1,
                                                !.left = o.n,
                                                !.pc = IF o.raised THEN "idle"
                                                       ELSE "save"]]
    /\ UNCHANGED <<weights, httpVars, tempFile>>

\* result.save("temp_result.jpg"); `out` is what this pass of the loop has
\* rendered so far
Save(s) ==
    /\ sess[s].pc = "save"
    /\ tempFile' = s
    /\ sess' = [sess EXCEPT ![s] = [@ EXCEPT !.pc = "open", !.out = NoOut]]
    /\ UNCHANGED <<weights, httpVars, cache>>

\* Image.open("temp_result.jpg"), st.image and the rest of the loop body
OpenRender(s) ==
    /\ sess[s].pc = "open"
    /\ \E boxes \in BoxLists(sess[s].slider) :
         sess' = [sess EXCEPT ![s] =
                    [@ EXCEPT !.out = RenderResult(tempFile, boxes),
                              !.left = @ - 1,
                              !.pc = IF sess[s].left > 1 THEN "save" ELSE "idle"]]
    /\ UNCHANGED <<weights, httpVars, cache, tempFile>>

NextForm ==
    \E s \in Sessions :
        \/ Rerun(s)
        \/ Click(s)
        \/ ScriptTop(s)
        \/ Save(s)
        \/ OpenRender(s)

SpecForm == FormInit /\ [][NextForm]_vars


\* ------------------------------------------------------------------- claims
IsPredict == lastResp.route = "predict"

\* C1: in every 200 response of POST /predict, `count` equals the number of
\* records in `detections`, whatever the detector returned.
C1_CountIsLength ==
    (IsPredict /\ lastResp.status = 200) => lastResp.count = Len(lastResp.detections)

\* a 200 response built from a Results object that holds no box
C1_Witness ==
    /\ IsPredict /\ lastResp.status = 200
    /\ lastResp.in.infer = "ok" /\ lastResp.detections = <<>>

\* the threshold a request asks for
Requested(field) ==
    IF field = "<missing>" THEN 50
    ELSE IF field = "0" THEN 0
    ELSE IF field = "0.9" THEN 90
    ELSE 150

\* C2: for a valid image and a threshold in [0,1] (0.5 when `conf` is
\* omitted), every record of the 200 response has a confidence at or above
\* the requested threshold.
C2_ConfidenceAtLeastThreshold ==
    (IsPredict /\ lastResp.status = 200 /\ Requested(lastResp.in.conf) <= 100) =>
        \A i \in 1..Len(lastResp.detections) :
            lastResp.detections[i].confidence >= Requested(lastResp.in.conf)

\* a 200 response with a record, for a request that left `conf` out
C2_Witness ==
    /\ IsPredict /\ lastResp.status = 200
    /\ lastResp.in.conf = "<missing>"
    /\ Len(lastResp.detections) > 0

\* C3 as stated: a POST /predict without `file` is answered 400 with an
\* {error} body in every state, the model being loaded or not.
C3_Original ==
    (IsPredict /\ ~lastResp.in.hasFile) =>
        (lastResp.status = 400 /\ lastResp.kind = "json_error")

\* C3 as amended: a POST /predict without `file` is answered 400 "No file
\* provided" when the model is loaded and 500 "Model not loaded" when it is
\* not, always with an {error} body, never with an unhandled fault and never
\* after calling the detector.
C3_MissingFile ==
    (IsPredict /\ ~lastResp.in.hasFile) =>
        /\ lastResp.kind = "json_error"
        /\ ~lastResp.called
        /\ lastResp.in.modelTag \in {"YOLO", "None"}
        /\ lastResp.in.modelTag = "YOLO" =>
             (lastResp.status = 400 /\ lastResp.error = "No file provided")
        /\ lastResp.in.modelTag = "None" =>
             (lastResp.status = 500 /\ lastResp.error = "Model not loaded")

\* a request without `file` answered 400 by a process whose model is loaded
C3_Witness ==
    /\ IsPredict /\ ~lastResp.in.hasFile
    /\ lastResp.in.modelTag = "YOLO" /\ lastResp.status = 400

\* C4: with the weights file absent, the process serves, every GET /health
\* reports model_loaded false, and every POST /predict returns the 500
\* "Model not loaded" error without calling the detector; no request ends in
\* an unhandled fault.
C4_AbsentWeights ==
    weights = "absent" =>
        /\ proc # "crashed"
        /\ proc = "serving" => model = NoneVal
        /\ lastResp.kind # "fault"
        /\ lastResp.route = "health" =>
             (lastResp.status = 200 /\ ~lastResp.model_loaded)
        /\ IsPredict =>
             /\ lastResp.status = 500 /\ lastResp.kind = "json_error"
             /\ lastResp.error = "Model not loaded"
             /\ ~lastResp.called

\* a POST /predict that carried a file, answered while the weights are absent
C4_Witness ==
    /\ weights = "absent"
    /\ IsPredict /\ lastResp.in.hasFile /\ lastResp.status = 500

\* C5 as stated: load_model is executed once per process, and no handler
\* reads `model` before it is assigned.
C5_LoadedOnce ==
    /\ loadCount <= 1
    /\ lastResp.in.modelTag # "unbound"

\* C6 as stated: when the weights file exists but the detector cannot be
\* built, the process keeps serving with the handle absent.
C6_InitFailureNotFatal ==
    (weights = "corrupt" /\ proc # "starting") =>
        (proc = "serving" /\ model = NoneVal)

\* the response predict must give, from the first step that fails
C7Status(in) ==
    IF in.modelTag = "None" THEN 500
    ELSE IF ~in.hasFile THEN 400
    ELSE IF in.conf \in {"abc"} THEN 500
    ELSE IF in.img = "invalid" THEN 500
    ELSE IF in.infer = "raises" THEN 500
    ELSE 200

C7Error(in) ==
    IF in.modelTag = "None" THEN "Model not loaded"
    ELSE IF ~in.hasFile THEN "No file provided"
    ELSE IF in.conf \in {"abc"} THEN "ValueError"
    ELSE IF in.img = "invalid" THEN "UnidentifiedImageError"
    ELSE IF in.infer = "raises" THEN "InferenceError"
    ELSE ""

C7_State ==
    /\ \A r \in Threads : sent[r] = (IF pc[r] = "done" THEN 1 ELSE 0)
    /\ IsPredict =>
         /\ lastResp.status = C7Status(lastResp.in)
         /\ lastResp.error = C7Error(lastResp.in)
         /\ lastResp.kind = (IF lastResp.status = 200 THEN "json_ok" ELSE "json_error")
         /\ lastResp.status # 200 => lastResp.detections = <<>>

\* the order of the positions of a request
Rank(p) ==
    CASE p = "idle" -> 0 [] p = "hook" -> 1 [] p = "wantlock" -> 2 [] p = "inhook" -> 3
      [] p = "dispatch" -> 4 [] p = "infer" -> 5 [] p = "done" -> 6

\* a request in flight can take its next step, or waits for the hook lock
\* held by a request that can
C7_CanStep ==
    \A r \in Threads :
        pc[r] \notin {"idle", "done"} =>
            \/ ENABLED Step(r)
            \/ /\ pc[r] = "wantlock" /\ hookLock \in Threads \ {r}
               /\ pc[hookLock] = "inhook" /\ ENABLED Step(hookLock)

\* a request only moves forward, and a thread starts its next request only
\* after the response
C7_Advances ==
    \A r \in Threads :
        pc'[r] # pc[r] =>
            \/ Rank(pc'[r]) > Rank(pc[r])
            \/ pc[r] = "done" /\ pc'[r] = "hook"

\* C7: every request that arrives ends in exactly one response (it moves
\* forward through finitely many steps, can always take the next one, and
\* has sent one response when done, none before); for POST /predict the
\* status is that of the first failing step of model check, file check,
\* threshold parse, decode, inference (500, 400, 500, 500, 500) with an
\* {error: message} body, and 200 with detections only when no step failed.
C7_OneResponsePerRequest ==
    /\ [](C7_State /\ C7_CanStep)
    /\ [][C7_Advances]_vars

\* a request whose detector call raised, answered 500
C7_Witness ==
    /\ IsPredict /\ lastResp.in.infer = "raises" /\ lastResp.status = 500
    /\ \E r \in Threads : pc[r] = "done" /\ sent[r] = 1

\* C8 as stated: once the process serves, no step of any request changes the
\* value of `model`.
C8_HandleReadOnly == [][proc = "serving" => model' = model]_vars

\* C9 as stated: the annotated image a session displays is the one its own
\* detect action wrote to temp_result.jpg.
C9_OwnAnnotatedImage ==
    \A s \in Sessions : sess[s].out # NoOut => sess[s].out.img = s

\* C10: in each script run the detector is called at most once; it is called
\* only in a run started by a click, with an image uploaded and the model
\* present, and such a run calls it exactly once; a result with no box shows
\* the warning and computes neither the table nor the statistics.
C10_InferenceOncePerClick ==
    \A s \in Sessions :
        /\ sess[s].calls <= 1
        /\ sess[s].calls = 1 =>
             (sess[s].clicked /\ sess[s].uploaded = "valid" /\ cache.tag = "YOLO")
        /\ (~sess[s].clicked \/ sess[s].uploaded = "none" \/ cache = NoneVal) =>
             sess[s].calls = 0
        /\ (sess[s].clicked /\ sess[s].pc # "run") => sess[s].calls = 1
        /\ (sess[s].out # NoOut /\ sess[s].out.n = 0) =>
             (sess[s].out.warning /\ sess[s].out.rows = 0 /\ ~sess[s].out.stats)
        /\ sess[s].out.stats => sess[s].out.divisor > 0

\* a click whose run called the detector and rendered a result with no box
C10_Witness ==
    \E s \in Sessions :
        /\ sess[s].clicked /\ sess[s].calls = 1 /\ sess[s].pc = "idle"
        /\ sess[s].out # NoOut /\ sess[s].out.n = 0 /\ sess[s].out.warning

=============================================================================
